---- MODULE Spec2Model ----
(***************************************************************************)
(* Model of the HelpTool collection store (app/main.py): one JSON array    *)
(* per collection on disk, read in full and rewritten in full by the two   *)
(* generic handlers module_list (GET/POST) and module_item                 *)
(* (GET/PUT/DELETE).                                                       *)
(***************************************************************************)
EXTENDS Integers, Sequences, FiniteSets, TLC

\* ------------------------------------------------------------------ bounds
\* Largest number of records the store holds over all collections.
MaxRecords == 3

\* ------------------------------------------------------------ JSON values
\* A JSON value is a record of one shape, so that any two values compare.
JInt(n) == [type |-> "int", n |-> n, s |-> ""]
JStr(str) == [type |-> "str", n |-> 0, s |-> str]
JBool(b) == [type |-> "bool", n |-> IF b THEN 1 ELSE 0, s |-> ""]
JArr == [type |-> "array", n |-> 0, s |-> ""]

\* A JSON object (a Python dict) is a function from some keys to JSON values.
EmptyObj == [k \in {} |-> JArr]

Has(obj, k) == k \in DOMAIN obj

\* d[k] = v on a dict: the key is added or its value overwritten.
SetKey(obj, k, v) == [x \in (DOMAIN obj) \cup {k} |-> IF x = k THEN v ELSE obj[x]]

\* d.setdefault(k, v)
SetDefault(obj, k, v) == IF Has(obj, k) THEN obj ELSE SetKey(obj, k, v)

\* isinstance(v, int): Python's bool is a subclass of int.
IsInstanceInt(v) == v.type \in {"int", "bool"}

\* obj.get('id') == item_id, for an int item_id (None and strings never equal)
IdEquals(obj, item_id) == Has(obj, "id") /\ IsInstanceInt(obj["id"]) /\ obj["id"].n = item_id

\* --------------------------------------------------------------- the disk
\* the collections the requests address: one with defaults, one without
Collections == {"tools", "tickets"}

NoFile == [state |-> "absent", items |-> <<>>]
ArrayFile(items) == [state |-> "array", items |-> items]

\* a file that json.load rejects; items are the records whose text is in it
CorruptFile(items) == [state |-> "corrupt", items |-> items]

\* (faulty variant: whatever records the file holds are returned)
load_json_lenient(file) == file.items

\* load_json: the parsed array, or [] when the file is missing or unparseable
load_json(file) == IF file.state = "array" THEN file.items ELSE <<>>

\* save_json: the file is rewritten with the whole list
save_json(data) == ArrayFile(data)

\* what save_json can do on a disk that fails: "ok", or open() raises and the
\* file stays as it is, or the write raises after open() truncated the file.
\* The exception is logged and False is returned.
SaveResults(faulty) == IF faulty THEN {"ok", "open_failed", "write_failed"} ELSE {"ok"}

\* the file save_json leaves
saved_file(file, data, result) ==
    CASE result = "ok" -> save_json(data)
      [] result = "open_failed" -> file
      [] result = "write_failed" -> CorruptFile(data)

\* get_timestamp_iso: the clock readings a request may see
Timestamps == {"2026-01-01T00:00:00.000Z"}

\* ---------------------------------------------------------- request bodies
\* data: whether request.data is empty; json_mime: whether the Content-Type is
\* JSON; kind: what the bytes are; obj: the object, when kind = "object".
Body(data, json_mime, kind, obj) ==
    [data |-> data, json_mime |-> json_mime, kind |-> kind, obj |-> obj]

ObjName == [name |-> JStr("a")]
ObjWithId ==
    [id |-> JInt(2), created_at |-> JStr("c"), admin |-> JBool(TRUE),
     autostart |-> JBool(TRUE), tags |-> JStr("t"), favorite |-> JBool(TRUE)]
ObjStrId == [id |-> JStr("x"), name |-> JStr("a")]

ObjectBodies == {ObjName, ObjWithId, ObjStrId}

NonObjectKinds == {"array", "string", "number", "boolean"}

Bodies ==
    {Body("empty", TRUE, "none", EmptyObj)}
    \cup {Body("bytes", TRUE, "malformed", EmptyObj)}
    \cup {Body("bytes", TRUE, k, EmptyObj) : k \in NonObjectKinds \cup {"null"}}
    \cup {Body("bytes", TRUE, "object", o) : o \in ObjectBodies}
    \cup {Body("bytes", FALSE, "object", ObjName)}

\* request.get_json(): "value" (the parsed JSON), "none" (None) or "raise" (an
\* HTTPException, which is an Exception).  Without a JSON Content-Type it
\* returns None or raises 415, depending on the installed Flask; unparseable
\* bytes raise BadRequest; the JSON null parses to None.
get_json(body) ==
    IF ~body.json_mime THEN {"none", "raise"}
    ELSE IF body.kind = "malformed" THEN {"raise"}
    ELSE IF body.kind = "null" THEN {"none"}
    ELSE {"value"}

\* ------------------------------------------------------------- responses
Response(status, item, list) == [status |-> status, item |-> item, list |-> list]
ErrorResponse(status) == Response(status, EmptyObj, <<>>)

\* The outcome of a handler: its response, and the list it saved, if any.
Outcome(resp, saved, items) == [resp |-> resp, saved |-> saved, items |-> items]
NoSave(resp) == Outcome(resp, FALSE, <<>>)

\* ------------------------------------------------------------ module_list
\* existing_ids: the ids of the items whose id is an int, in list order
existing_ids(items) ==
    LET ints == SelectSeq(items, LAMBDA it : Has(it, "id") /\ IsInstanceInt(it["id"]))
    IN  [i \in 1..Len(ints) |-> ints[i]["id"].n]

\* x in lst
InList(x, lst) == \E i \in 1..Len(lst) : lst[i] = x

\* next_id = 1; while next_id in existing_ids: next_id += 1
RECURSIVE next_id_loop(_, _)
next_id_loop(n, ids) == IF InList(n, ids) THEN next_id_loop(n + 1, ids) ELSE n

\* (faulty variant: one more than the largest id)
next_id_after_max(items) ==
    LET ids == existing_ids(items)
    IN  IF Len(ids) = 0 THEN 1
        ELSE 1 + ids[CHOOSE i \in 1..Len(ids) : \A j \in 1..Len(ids) : ids[j] <= ids[i]]

\* (faulty variant: one more than the number of ids, never reusing a freed id)
next_id_after_count(items) == Len(existing_ids(items)) + 1

next_id(items) == next_id_loop(1, existing_ids(items))

\* (faulty variant: the timestamp is written over a submitted created_at)
with_created_at_always(item, now) == SetKey(item, "created_at", JStr(now))

\* (faulty variant: no timestamp is added)
with_created_at_never(item, now) == item

\* 'created_at' not in new_item  =>  new_item['created_at'] = get_timestamp_iso()
with_created_at(item, now) ==
    IF Has(item, "created_at") THEN item ELSE SetKey(item, "created_at", JStr(now))

\* (faulty variant: the defaults are assigned, not set by setdefault)
with_defaults_assigned(module, item) ==
    IF module = "tools"
    THEN SetKey(SetKey(SetKey(SetKey(item,
             "admin", JBool(FALSE)), "autostart", JBool(FALSE)), "tags", JArr),
             "favorite", JBool(FALSE))
    ELSE IF module = "faq"
    THEN SetKey(SetKey(SetKey(item,
             "tags", JArr), "favorite", JBool(FALSE)), "attachments", JArr)
    ELSE item

\* the setdefault calls of the two collections that have defaults
with_defaults(module, item) ==
    IF module = "tools"
    THEN SetDefault(SetDefault(SetDefault(SetDefault(item,
             "admin", JBool(FALSE)), "autostart", JBool(FALSE)), "tags", JArr),
             "favorite", JBool(FALSE))
    ELSE IF module = "faq"
    THEN SetDefault(SetDefault(SetDefault(item,
             "tags", JArr), "favorite", JBool(FALSE)), "attachments", JArr)
    ELSE item

\* (faulty variant: an integer id of the body is kept when no record has it)
new_item_honours_free_id(module, obj, items, now) ==
    with_defaults(module, with_created_at(
        IF Has(obj, "id") /\ obj["id"].type = "int" /\ obj["id"].n > 0
              /\ ~InList(obj["id"].n, existing_ids(items))
        THEN obj
        ELSE SetKey(obj, "id", JInt(next_id(items))), now))

\* (faulty variant: an id of the body is kept)
new_item_keeps_body_id(module, obj, items, now) ==
    with_defaults(module, with_created_at(SetDefault(obj, "id", JInt(next_id(items))), now))

\* the record POST builds from an object body
new_item(module, obj, items, now) ==
    with_defaults(module, with_created_at(SetKey(obj, "id", JInt(next_id(items))), now))

\* module_list for POST, on the loaded items; gj is what get_json() did.
\* A body that is JSON but no object fails at new_item['id'] = next_id with a
\* TypeError, which the except clause turns into 500.
module_list_post(module, body, gj, now, items) ==
    IF body.data = "empty" THEN NoSave(ErrorResponse(400))
    ELSE IF gj = "raise" THEN NoSave(ErrorResponse(500))
    ELSE IF gj = "none" THEN NoSave(ErrorResponse(400))
    ELSE IF body.kind # "object" THEN NoSave(ErrorResponse(500))
    ELSE LET item == new_item(module, body.obj, items, now)
         IN  Outcome(Response(201, item, <<>>), TRUE, Append(items, item))

\* (faulty variant: the list is written back on a read)
module_list_get_saves(items) == Outcome(Response(200, EmptyObj, items), TRUE, items)

\* module_list for GET
module_list_get(items) == NoSave(Response(200, EmptyObj, items))

\* ------------------------------------------------------------ module_item
\* (faulty variant: the last position when no record has the id)
idx_or_last(items, item_id) ==
    IF \E i \in 1..Len(items) : IdEquals(items[i], item_id)
    THEN CHOOSE i \in 1..Len(items) :
            /\ IdEquals(items[i], item_id)
            /\ \A j \in 1..(i - 1) : ~IdEquals(items[j], item_id)
    ELSE Len(items)

\* idx: the first position whose record has the id, 0 for None
idx(items, item_id) ==
    IF \E i \in 1..Len(items) : IdEquals(items[i], item_id)
    THEN CHOOSE i \in 1..Len(items) :
            /\ IdEquals(items[i], item_id)
            /\ \A j \in 1..(i - 1) : ~IdEquals(items[j], item_id)
    ELSE 0

\* (faulty variant: items.pop() removes the last record)
PopLast(items, i) == SubSeq(items, 1, Len(items) - 1)

\* items.pop(idx)
Pop(items, i) == [j \in 1..(Len(items) - 1) |-> IF j < i THEN items[j] ELSE items[j + 1]]

\* (faulty variant: an id of the body is kept)
updated_item_keeps_body_id(obj, item_id) == SetDefault(obj, "id", JInt(item_id))

\* the record PUT stores: the body with its id forced to the path id
updated_item(obj, item_id) == SetKey(obj, "id", JInt(item_id))

module_item_get(items, item_id) ==
    IF idx(items, item_id) = 0 THEN NoSave(ErrorResponse(404))
    ELSE NoSave(Response(200, items[idx(items, item_id)], <<>>))

module_item_delete(items, item_id) ==
    IF idx(items, item_id) = 0 THEN NoSave(ErrorResponse(404))
    ELSE Outcome(Response(200, EmptyObj, <<>>), TRUE, Pop(items, idx(items, item_id)))

\* (faulty variant: the body is validated before the id is looked up)
module_item_put_validates_first(items, item_id, body, gj) ==
    IF body.data = "empty" THEN NoSave(ErrorResponse(400))
    ELSE IF gj = "raise" THEN NoSave(ErrorResponse(500))
    ELSE IF gj = "none" THEN NoSave(ErrorResponse(400))
    ELSE IF idx(items, item_id) = 0 THEN NoSave(ErrorResponse(404))
    ELSE IF body.kind # "object" THEN NoSave(ErrorResponse(500))
    ELSE LET item == updated_item(body.obj, item_id)
         IN  Outcome(Response(200, item, <<>>),
                     TRUE, [items EXCEPT ![idx(items, item_id)] = item])

\* (faulty variant: the record is removed and the new one appended)
module_item_put_appends(items, item_id, body, gj) ==
    IF idx(items, item_id) = 0 THEN NoSave(ErrorResponse(404))
    ELSE IF body.data = "empty" THEN NoSave(ErrorResponse(400))
    ELSE IF gj = "raise" THEN NoSave(ErrorResponse(500))
    ELSE IF gj = "none" THEN NoSave(ErrorResponse(400))
    ELSE IF body.kind # "object" THEN NoSave(ErrorResponse(500))
    ELSE LET item == updated_item(body.obj, item_id)
         IN  Outcome(Response(200, item, <<>>),
                     TRUE, Append(Pop(items, idx(items, item_id)), item))

module_item_put(items, item_id, body, gj) ==
    IF idx(items, item_id) = 0 THEN NoSave(ErrorResponse(404))
    ELSE IF body.data = "empty" THEN NoSave(ErrorResponse(400))
    ELSE IF gj = "raise" THEN NoSave(ErrorResponse(500))
    ELSE IF gj = "none" THEN NoSave(ErrorResponse(400))
    ELSE IF body.kind # "object" THEN NoSave(ErrorResponse(500))
    ELSE LET item == updated_item(body.obj, item_id)
         IN  Outcome(Response(200, item, <<>>),
                     TRUE, [items EXCEPT ![idx(items, item_id)] = item])

\* ------------------------------------------------------------------ state
VARIABLES
    files,    \* files[c]: the backing file of collection c
    req,      \* the last request served
    resp,     \* its response
    before,   \* the files as they were when it arrived
    inflight, \* inflight[p]: the request worker p is serving concurrently
    disk      \* whether writes can fail, and what the last save_json did

vars == <<files, req, resp, before, inflight, disk>>

Disk(faulty, save) == [faulty |-> faulty, save |-> save]

NoBody == Body("empty", TRUE, "none", EmptyObj)

Request(op, module, item_id, body, now) ==
    [op |-> op, module |-> module, item_id |-> item_id, body |-> body, now |-> now]

\* the path ids a client asks for: <int:item_id> matches 0, 1, 2, ...
ItemIds == 0..MaxRecords

TotalRecords(fs) ==
    LET RECURSIVE Sum(_)
        Sum(S) == IF S = {} THEN 0
                  ELSE LET c == CHOOSE x \in S : TRUE
                       IN  Len(load_json(fs[c])) + Sum(S \ {c})
    IN  Sum(DOMAIN fs)

\* A request is served in full: load, act, save when the handler saves, answer.
\* A run is a finite sequence of requests; of its last request (log) the
\* request, the response and the files it found are kept for inspection.
Running == req.op = "none"

\* (variant that reports a failed save)
answer_checks_save(out, result) ==
    IF result \in {"open_failed", "write_failed"} THEN ErrorResponse(500) ELSE out.resp

\* the answer of a request: the value save_json returns is not looked at
answer(out, result) == out.resp

Serve(r, out) ==
    \E result \in (IF out.saved THEN SaveResults(disk.faulty) ELSE {"none"}) :
        /\ LET written == [files EXCEPT
                              ![r.module] = saved_file(files[r.module], out.items, result)]
           IN  /\ out.saved => Len(out.items) + TotalRecords(files)
                                    - Len(load_json(files[r.module])) <= MaxRecords
               /\ files' = IF out.saved THEN written ELSE files
        /\ \E log \in BOOLEAN :
              IF log
              THEN /\ req' = r /\ resp' = answer(out, result) /\ before' = files
                   /\ disk' = Disk(disk.faulty, result)
              ELSE UNCHANGED <<req, resp, before, disk>>
        /\ UNCHANGED inflight

NoRequest == Request("none", "tools", 0, NoBody, "")

\* the workers that serve requests at the same time
Workers == {"w1", "w2"}

\* a worker: idle, or past its load_json ("loaded", items is what it read),
\* or past its answer ("done", rank tells which answer came first)
Worker(stage, r, items, rsp, rank) ==
    [stage |-> stage, req |-> r, items |-> items, resp |-> rsp, rank |-> rank]
Idle == Worker("idle", NoRequest, <<>>, ErrorResponse(0), 0)

Init ==
    /\ files \in [Collections -> {NoFile, ArrayFile(<<>>)}]
    /\ req = NoRequest
    /\ resp = ErrorResponse(0)
    /\ before = files
    /\ inflight = [p \in Workers |-> Idle]
    /\ disk = Disk(FALSE, "none")

List ==
    Running /\ \E c \in DOMAIN files :
        Serve(Request("List", c, 0, NoBody, ""), module_list_get(load_json(files[c])))

Create ==
    Running /\ \E c \in DOMAIN files, body \in Bodies, now \in Timestamps :
        \E gj \in get_json(body) :
            Serve(Request("Create", c, 0, body, now),
                  module_list_post(c, body, gj, now, load_json(files[c])))

Fetch ==
    Running /\ \E c \in DOMAIN files, id \in ItemIds :
        Serve(Request("Fetch", c, id, NoBody, ""),
              module_item_get(load_json(files[c]), id))

Delete ==
    Running /\ \E c \in DOMAIN files, id \in ItemIds :
        Serve(Request("Delete", c, id, NoBody, ""),
              module_item_delete(load_json(files[c]), id))

\* the body a client builds from the record it fetched under the id
FetchedBodies(items, id) ==
    IF idx(items, id) = 0 THEN {}
    ELSE {Body("bytes", TRUE, "object", module_item_get(items, id).resp.item)}

Replace ==
    Running /\ \E c \in DOMAIN files, id \in ItemIds :
      \E body \in Bodies \cup FetchedBodies(load_json(files[c]), id) :
        \E gj \in get_json(body) :
            Serve(Request("Replace", c, id, body, ""),
                  module_item_put(load_json(files[c]), id, body, gj))

Next == List \/ Create \/ Fetch \/ Delete \/ Replace

Spec == Init /\ [][Next]_vars

\* --------------------------------------------- any collection, any old file
\* The store serves whatever collection name the path carries, and the file it
\* finds may be missing, empty or unparseable.
Modules == {"tools", "faq", "termine"}

SeedRecord == [id |-> JInt(1), name |-> JStr("a"), created_at |-> JStr("c")]

StartFiles == {NoFile, ArrayFile(<<>>), CorruptFile(<<>>), CorruptFile(<<SeedRecord>>)}

InitModules ==
    /\ files \in {[c \in {m} |-> f] : m \in Modules, f \in StartFiles}
    /\ req = NoRequest
    /\ resp = ErrorResponse(0)
    /\ before = files
    /\ inflight = [p \in Workers |-> Idle]
    /\ disk = Disk(FALSE, "none")

SpecModules == InitModules /\ [][Next]_vars

\* ---------------------------------------------------------- a failing disk
InitFault ==
    /\ files \in {[c \in {m} |-> NoFile] : m \in Modules}
    /\ req = NoRequest
    /\ resp = ErrorResponse(0)
    /\ before = files
    /\ inflight = [p \in Workers |-> Idle]
    /\ disk = Disk(TRUE, "none")

SpecFault == InitFault /\ [][Next]_vars

\* ------------------------------------------------------ concurrent requests
\* The handlers take no lock: between the load_json and the save_json of one
\* request another request may be served.  Each read and each write of the
\* file is one step.

\* what a handler does to the items it loaded
handle(r, gj, items) ==
    CASE r.op = "List"    -> module_list_get(items)
      [] r.op = "Create"  -> module_list_post(r.module, r.body, gj, r.now, items)
      [] r.op = "Fetch"   -> module_item_get(items, r.item_id)
      [] r.op = "Delete"  -> module_item_delete(items, r.item_id)
      [] r.op = "Replace" -> module_item_put(items, r.item_id, r.body, gj)

\* (a variant under a lock: the list is read again when the request acts)
working_items_reloaded(loaded, file) == load_json(file)

\* the list a handler works on is the one it loaded on entry, whatever the
\* file holds by now
working_items(loaded, file) == loaded

\* the collection the concurrent requests address
Shared == "tools"

MutatingBodies == {Body("bytes", TRUE, "object", o) : o \in {ObjName, ObjWithId}}

MutatingRequests ==
    {Request("Create", Shared, 0, b, now) : b \in MutatingBodies, now \in Timestamps}
    \cup {Request("Replace", Shared, id, Body("bytes", TRUE, "object", ObjWithId), "") :
              id \in 1..MaxRecords}
    \cup {Request("Delete", Shared, id, NoBody, "") : id \in 1..MaxRecords}

AllIdle == \A p \in Workers : inflight[p].stage = "idle"

\* requests served one after the other, before the concurrent ones arrive
Earlier ==
    /\ AllIdle
    /\ \E r \in MutatingRequests : \E gj \in get_json(r.body) :
        LET out == handle(r, gj, load_json(files[r.module]))
        IN  /\ out.saved
            /\ Len(out.items) <= MaxRecords
            /\ files' = [files EXCEPT ![r.module] = save_json(out.items)]
    /\ UNCHANGED <<req, resp, before, inflight, disk>>

\* worker p takes a request and loads the collection (main.py lines 52, 94)
Load(p) ==
    /\ inflight[p].stage = "idle"
    /\ \E r \in MutatingRequests :
        inflight' = [inflight EXCEPT
                        ![p] = Worker("loaded", r, load_json(files[r.module]),
                                      ErrorResponse(0), 0)]
    /\ UNCHANGED <<files, req, resp, before, disk>>

\* worker p acts on what it loaded, saves and answers
Finish(p) ==
    /\ inflight[p].stage = "loaded"
    /\ LET r == inflight[p].req
           answered == Cardinality({q \in Workers : inflight[q].stage = "done"})
       IN  \E gj \in get_json(r.body) :
             LET out == handle(r, gj, working_items(inflight[p].items, files[r.module]))
             IN  /\ out.saved => Len(out.items) <= MaxRecords
                 /\ files' = IF out.saved
                             THEN [files EXCEPT ![r.module] = save_json(out.items)]
                             ELSE files
                 /\ inflight' = [inflight EXCEPT
                                    ![p] = Worker("done", r, inflight[p].items,
                                                  out.resp, answered + 1)]
    /\ UNCHANGED <<req, resp, before, disk>>

NextConc == Earlier \/ (\E p \in Workers : Load(p)) \/ (\E p \in Workers : Finish(p))

InitConc ==
    /\ files = [c \in Collections |-> NoFile]
    /\ req = NoRequest
    /\ resp = ErrorResponse(0)
    /\ before = files
    /\ inflight = [p \in Workers |-> Idle]
    /\ disk = Disk(FALSE, "none")

SpecConc == InitConc /\ [][NextConc]_vars

\* ================================================================ claims
\* What the last request of the run found and left in its collection.
Logged(op) == req.op = op
Stored(c) == load_json(files[c])
Found == load_json(before[req.module])
Left == load_json(files[req.module])
IsObjectBody == req.body.data = "bytes" /\ req.body.kind = "object"
Carries(items, id) == \E i \in 1..Len(items) : IdEquals(items[i], id)
PositiveIntId(item) == Has(item, "id") /\ item["id"].type = "int" /\ item["id"].n > 0

\* C1: every stored record has a positive integer id, and no two records of a
\* collection have the same id.
C1_UniquePositiveIds ==
    \A c \in Collections :
        /\ \A i \in 1..Len(Stored(c)) : PositiveIntId(Stored(c)[i])
        /\ \A i, j \in 1..Len(Stored(c)) :
               i # j => Stored(c)[i]["id"] # Stored(c)[j]["id"]

\* C1 witness: a Create whose body carried id 2 was served while id 2 was
\* taken, in a collection that then holds three records.
C1_Witness ==
    /\ Logged("Create") /\ resp.status = 201
    /\ req.body.obj = ObjWithId
    /\ Carries(Found, 2)
    /\ Len(Left) = 3

\* C2: Create assigns the smallest positive integer that is the id of no
\* record of the collection, so an id freed by Delete is reused.
C2_SmallestFreeId ==
    (Logged("Create") /\ resp.status = 201) =>
        /\ PositiveIntId(resp.item)
        /\ ~Carries(Found, resp.item["id"].n)
        /\ \A m \in 1..(resp.item["id"].n - 1) : Carries(Found, m)

\* C2 witness: the collection held ids 1 and 3 (2 was deleted) and the Create
\* received id 2.
C2_Witness ==
    /\ Logged("Create") /\ resp.status = 201
    /\ Len(Found) = 2
    /\ IdEquals(Found[1], 1) /\ IdEquals(Found[2], 3)
    /\ IdEquals(resp.item, 2)

\* the fields Create adds to a record of the collection, with their values
C3_Defaults(module) ==
    IF module = "tools"
    THEN [admin |-> JBool(FALSE), autostart |-> JBool(FALSE), tags |-> JArr,
          favorite |-> JBool(FALSE)]
    ELSE IF module = "faq"
    THEN [tags |-> JArr, favorite |-> JBool(FALSE), attachments |-> JArr]
    ELSE EmptyObj

\* C3: a successful Create returns a record with a positive integer id that
\* was not in the collection; the collection is then the previous sequence
\* followed by that record; its fields are the submitted ones unchanged (but
\* for id), plus id, created_at and the defaults of the collection.
C3_CreateAppends ==
    (Logged("Create") /\ resp.status = 201) =>
        LET obj == req.body.obj
            item == resp.item
            dflt == C3_Defaults(req.module)
        IN  /\ IsObjectBody
            /\ PositiveIntId(item)
            /\ ~Carries(Found, item["id"].n)
            /\ Left = Found \o <<item>>
            /\ DOMAIN item = (DOMAIN obj) \cup {"id", "created_at"} \cup (DOMAIN dflt)
            /\ \A k \in (DOMAIN obj) \ {"id"} : item[k] = obj[k]
            /\ ~Has(obj, "created_at") => item["created_at"] = JStr(req.now)
            /\ \A k \in (DOMAIN dflt) \ (DOMAIN obj) : item[k] = dflt[k]

\* C3 witness: a Create into a collection with defaults and two records, of a
\* body without created_at.
C3_Witness ==
    /\ Logged("Create") /\ resp.status = 201
    /\ req.module = "tools"
    /\ req.body.obj = ObjName
    /\ Len(Found) = 2 /\ Len(Left) = 3

\* C4: a Replace of an existing id by an object body stores, at the same
\* position, exactly the body with id forced to the path id; nothing of the
\* old record survives, the other records and the order are unchanged, and
\* the stored record is the one returned.
C4_ReplaceOverwrites ==
    (Logged("Replace") /\ Carries(Found, req.item_id) /\ IsObjectBody
         /\ req.body.json_mime) =>
        LET obj == req.body.obj IN
        /\ resp.status = 200
        /\ Len(Left) = Len(Found)
        /\ \E i \in 1..Len(Found) :
            /\ IdEquals(Found[i], req.item_id)
            /\ \A j \in 1..(i - 1) : ~IdEquals(Found[j], req.item_id)
            /\ DOMAIN Left[i] = (DOMAIN obj) \cup {"id"}
            /\ Left[i]["id"] = JInt(req.item_id)
            /\ \A k \in (DOMAIN obj) \ {"id"} : Left[i][k] = obj[k]
            /\ \A j \in 1..Len(Found) : j # i => Left[j] = Found[j]
            /\ resp.item = Left[i]

\* C4 witness: a body carrying id 2 replaced the second of three records,
\* whose id is not 2 and which had a field the body lacks.
C4_Witness ==
    /\ Logged("Replace") /\ resp.status = 200
    /\ req.body.obj = ObjWithId
    /\ req.item_id = 3
    /\ Len(Found) = 3
    /\ IdEquals(Found[2], 3)
    /\ Has(Found[2], "name")

\* C5: Delete, Fetch or Replace of an id no record carries answers 404 and
\* leaves the stored collection as it was.
C5_UnknownIdNotFound ==
    ((Logged("Delete") \/ Logged("Fetch") \/ Logged("Replace"))
         /\ ~Carries(Found, req.item_id)) =>
        /\ resp.status = 404
        /\ files = before

\* C5 witness: a Delete of an absent id on a collection that holds records.
C5_Witness ==
    /\ Logged("Delete")
    /\ Len(Found) = 2
    /\ ~Carries(Found, req.item_id)
    /\ req.item_id > 0
    /\ resp.status = 404

\* C6: a Create, or a Replace of an existing id, whose body is non-empty
\* bytes that are no JSON answers 400 and leaves the collection unmodified.
C6_MalformedIs400 ==
    ((Logged("Create") \/ (Logged("Replace") /\ Carries(Found, req.item_id)))
         /\ req.body.data = "bytes" /\ req.body.kind = "malformed") =>
        /\ resp.status = 400
        /\ files = before

\* C7: a Create whose body is JSON but no object (array, string, number,
\* boolean) answers 400 and leaves the collection unchanged.
C7_NonObjectIs400 ==
    (Logged("Create") /\ req.body.data = "bytes" /\ req.body.json_mime
         /\ req.body.kind \in NonObjectKinds) =>
        /\ resp.status = 400
        /\ files = before

\* C8: replacing a record by what Fetch returns for it leaves the whole store
\* as it was.
C8_RoundTrip ==
    (Logged("Replace") /\ Carries(Found, req.item_id) /\ IsObjectBody
         /\ req.body.json_mime
         /\ req.body.obj = module_item_get(Found, req.item_id).resp.item) =>
        /\ resp.status = 200
        /\ files = before

\* C8 witness: the round trip on the middle one of three records, which has
\* a created_at.
C8_Witness ==
    /\ Logged("Replace") /\ resp.status = 200
    /\ Len(Found) = 3
    /\ IdEquals(Found[2], req.item_id)
    /\ Has(Found[2], "created_at")
    /\ req.body.obj = Found[2]

\* C9: a Delete of an existing id answers success and removes exactly the
\* record with that id; the others stay, unchanged and in the same order, and
\* a Fetch of the id then answers 404.
C9_DeleteRemovesOne ==
    (Logged("Delete") /\ Carries(Found, req.item_id)) =>
        /\ resp.status = 200
        /\ Len(Left) = Len(Found) - 1
        /\ \E i \in 1..Len(Found) :
            /\ IdEquals(Found[i], req.item_id)
            /\ \A j \in 1..(i - 1) : Left[j] = Found[j]
            /\ \A j \in i..Len(Left) : Left[j] = Found[j + 1]
        /\ module_item_get(Left, req.item_id).resp.status = 404

\* C9 witness: the middle one of three records was deleted.
C9_Witness ==
    /\ Logged("Delete") /\ resp.status = 200
    /\ Len(Found) = 3
    /\ IdEquals(Found[2], req.item_id)
    /\ Len(Left) = 2

Success(rsp) == rsp.status \in {200, 201}

\* what the file holds when the request of worker p alone is served on items
Alone(p, items) == handle(inflight[p].req, "value", items).items

\* C10: when two mutating requests read the same snapshot and both answer
\* success, the file is what the later answering one alone would have left:
\* the update of the other is lost (two Creates, one new record).
C10_LastWriterWins ==
    \A p, q \in Workers :
        (/\ p # q
         /\ inflight[p].stage = "done" /\ inflight[q].stage = "done"
         /\ inflight[p].items = inflight[q].items
         /\ Success(inflight[p].resp) /\ Success(inflight[q].resp)
         /\ inflight[p].rank > inflight[q].rank) =>
            /\ Stored(Shared) = Alone(p, inflight[p].items)
            /\ (inflight[p].req.op = "Create" /\ inflight[q].req.op = "Create") =>
                   Len(Stored(Shared)) = Len(inflight[p].items) + 1

\* C10 witness: two Creates of different bodies read the same one-record
\* list, both answered 201 with the same id, and one new record is stored.
C10_Witness ==
    /\ \A p \in Workers :
        /\ inflight[p].stage = "done"
        /\ inflight[p].req.op = "Create"
        /\ inflight[p].resp.status = 201
        /\ Len(inflight[p].items) = 1
    /\ inflight["w1"].items = inflight["w2"].items
    /\ inflight["w1"].req.body # inflight["w2"].req.body
    /\ inflight["w1"].resp.item["id"] = inflight["w2"].resp.item["id"]
    /\ Len(Stored(Shared)) = 2

SaveFailed == disk.save \in {"open_failed", "write_failed"}

\* C11: when save_json fails, Create still answers 201 with the new record
\* and Replace and Delete still answer 200: the answer is the one of a
\* successful save, and the record a Create was answered with is not listed.
C11_AnswerIgnoresSave ==
    SaveFailed =>
        /\ Logged("Create") \/ Logged("Replace") \/ Logged("Delete")
        /\ resp = handle(req, "value", Found).resp
        /\ Logged("Create") =>
              /\ resp.status = 201
              /\ PositiveIntId(resp.item)
              /\ \A i \in 1..Len(Left) : Left[i] # resp.item
        /\ Logged("Replace") => resp.status = 200
        /\ Logged("Delete") => resp.status = 200
        /\ Left = IF disk.save = "open_failed" THEN Found ELSE <<>>

\* C11 witness: a Create into a collection of one record was answered 201
\* though the write failed, and the collection now lists nothing.
C11_Witness ==
    /\ Logged("Create") /\ resp.status = 201
    /\ disk.save = "write_failed"
    /\ Len(Found) = 1
    /\ Left = <<>>

\* C12: List answers 200 with the empty sequence whenever the file of the
\* collection is missing or cannot be parsed, whatever the collection name.
C12_ListEmptyOnBadFile ==
    Logged("List") =>
        /\ resp.status = 200
        /\ before[req.module].state \in {"absent", "corrupt"} => resp.list = <<>>

\* C12 witness: a List of a collection whose file holds a record but does not
\* parse answered the empty sequence.
C12_Witness ==
    /\ Logged("List")
    /\ before[req.module] = CorruptFile(<<SeedRecord>>)
    /\ resp.status = 200 /\ resp.list = <<>>

\* the fields of the created record that the body did not have, id and
\* created_at apart
C13_Added == (DOMAIN resp.item) \ ((DOMAIN req.body.obj) \cup {"id", "created_at"})

\* C13: Create adds admin, autostart, favorite = false and tags = [] in
\* "tools", tags = [], favorite = false and attachments = [] in "faq", each
\* only when the body lacks it, nothing in another collection, and never
\* changes a value the body supplied for such a field.
C13_DefaultsByCollection ==
    (Logged("Create") /\ resp.status = 201) =>
        /\ req.module = "tools" =>
              /\ C13_Added = {"admin", "autostart", "favorite", "tags"} \ DOMAIN req.body.obj
              /\ \A k \in C13_Added :
                    resp.item[k] = IF k = "tags" THEN JArr ELSE JBool(FALSE)
        /\ req.module = "faq" =>
              /\ C13_Added = {"tags", "favorite", "attachments"} \ DOMAIN req.body.obj
              /\ \A k \in C13_Added :
                    resp.item[k] = IF k = "favorite" THEN JBool(FALSE) ELSE JArr
        /\ req.module \notin {"tools", "faq"} => C13_Added = {}
        /\ \A k \in (DOMAIN req.body.obj) \cap
                    {"admin", "autostart", "favorite", "tags", "attachments"} :
              resp.item[k] = req.body.obj[k]

\* C13 witness: a Create in "faq" of a body with tags and favorite but no
\* attachments kept the two and got the third.
C13_Witness ==
    /\ Logged("Create") /\ resp.status = 201
    /\ req.module = "faq"
    /\ req.body.obj = ObjWithId
    /\ resp.item["tags"] = JStr("t")
    /\ resp.item["favorite"] = JBool(TRUE)
    /\ resp.item["attachments"] = JArr
    /\ resp.item["admin"] = JBool(TRUE)

\* C14 as claimed: every stored record has a created_at field.
C14_AllHaveCreatedAt ==
    \A c \in DOMAIN files :
        \A i \in 1..Len(Stored(c)) : Has(Stored(c)[i], "created_at")

\* C14 as amended: the record a Create stores has a created_at field, and a
\* record without one is in the collection after a request only if it was
\* there before or the request is a Replace that stored a body without it.
C14_OnlyReplaceDropsCreatedAt ==
    ~Running =>
        /\ (Logged("Create") /\ resp.status = 201) =>
              /\ Has(resp.item, "created_at")
              /\ Left[Len(Left)] = resp.item
        /\ \A i \in 1..Len(Left) :
              ~Has(Left[i], "created_at") =>
                  \/ \E j \in 1..Len(Found) : Found[j] = Left[i]
                  \/ /\ Logged("Replace") /\ resp.status = 200
                     /\ Left[i] = resp.item
                     /\ ~Has(req.body.obj, "created_at")

\* C14 witness: a Replace by a body without created_at took the place of a
\* record that had one.
C14_Witness ==
    /\ Logged("Replace") /\ resp.status = 200
    /\ req.body.obj = ObjName
    /\ \E i \in 1..Len(Found) :
          /\ IdEquals(Found[i], req.item_id)
          /\ Has(Found[i], "created_at")
          /\ ~Has(Left[i], "created_at")

\* C15: Replace looks the id up before it looks at the body: an id no record
\* carries answers 404 whatever the body, and Replace answers 400 only for an
\* id that exists.
C15_ExistenceBeforeValidation ==
    Logged("Replace") =>
        /\ ~Carries(Found, req.item_id) => resp.status = 404
        /\ resp.status = 400 => Carries(Found, req.item_id)

\* C15 witness: a Replace with an empty body of an id that is not among the
\* records of the collection answered 404.
C15_Witness ==
    /\ Logged("Replace")
    /\ req.body.data = "empty"
    /\ Len(Found) = 1
    /\ ~Carries(Found, req.item_id)
    /\ resp.status = 404

\* C16: a request on a collection leaves the file of every other collection
\* as it is, and List and Fetch leave every file as it is, the file of their
\* own collection included: a read creates and rewrites no file.
C16_IndependentAndPureReads ==
    ~Running =>
        /\ \A c \in (DOMAIN files) \ {req.module} : files[c] = before[c]
        /\ (Logged("List") \/ Logged("Fetch")) => files = before

\* C16 witness: a List of a collection without a file, served while the other
\* collection holds two records.
C16_Witness ==
    /\ Logged("List")
    /\ before[req.module] = NoFile
    /\ files[req.module] = NoFile
    /\ \E c \in (DOMAIN files) \ {req.module} : Len(Stored(c)) = 2

\* C18: the id Create assigns to a collection of n records is at most n + 1,
\* and it is n + 1 exactly when the records' ids are 1..n (the search for it
\* ends after at most n + 1 steps).
C18_IdAtMostCountPlusOne ==
    (Logged("Create") /\ resp.status = 201) =>
        LET n == Len(Found)
            ids == {k \in 1..(n + 1) : Carries(Found, k)}
        IN  /\ resp.item["id"].n \in 1..(n + 1)
            /\ resp.item["id"].n = n + 1 <=> ids = 1..n

\* C18 witness: a collection of two records, ids 2 and 3, whose Create got 1.
C18_Witness ==
    /\ Logged("Create") /\ resp.status = 201
    /\ Len(Found) = 2
    /\ Carries(Found, 2) /\ Carries(Found, 3)
    /\ resp.item["id"] = JInt(1)

\* C20: the id of the created and stored record is the one the store
\* computed from the records it found, whatever id the body carried; a
\* created_at of the body is kept.
C20_BodyIdIgnored ==
    (Logged("Create") /\ resp.status = 201) =>
        LET obj == req.body.obj
            stored == Left[Len(Left)]
        IN  /\ stored = resp.item
            /\ stored["id"].type = "int"
            /\ stored["id"].n = CHOOSE k \in 1..(Len(Found) + 1) :
                                   /\ ~Carries(Found, k)
                                   /\ \A m \in 1..(k - 1) : Carries(Found, m)
            /\ Has(obj, "created_at") => stored["created_at"] = obj["created_at"]

\* C20 witness: a body with the unused integer id 2 and its own created_at
\* was created in an empty collection as record 1, created_at kept.
C20_Witness ==
    /\ Logged("Create") /\ resp.status = 201
    /\ req.body.obj = ObjWithId
    /\ Found = <<>>
    /\ resp.item["id"] = JInt(1)
    /\ resp.item["created_at"] = JStr("c")
    /\ Left = <<resp.item>>

\* C17: whatever the interleaving of the loads and saves of concurrent
\* Creates, Replaces and Deletes on one collection, the stored records carry
\* positive integer ids and no two of them carry the same one, although two
\* Creates can be answered with the same id for different records.
C17_ConcurrentIdsDistinct ==
    LET items == Stored(Shared)
    IN  /\ \A i \in 1..Len(items) : PositiveIntId(items[i])
        /\ Cardinality({items[i]["id"].n : i \in 1..Len(items)}) = Len(items)

\* C17 witness: two Creates read the same empty list and were both answered
\* 201 with id 1 for two different records, of which one is stored.
C17_Witness ==
    /\ \A p \in Workers :
        /\ inflight[p].stage = "done"
        /\ inflight[p].req.op = "Create"
        /\ inflight[p].resp.status = 201
        /\ inflight[p].items = <<>>
        /\ inflight[p].resp.item["id"] = JInt(1)
    /\ inflight["w1"].resp.item # inflight["w2"].resp.item
    /\ Len(Stored(Shared)) = 1
    /\ Stored(Shared)[1] \in {inflight[p].resp.item : p \in Workers}

\* C19: a Create on a collection whose file is there but does not parse
\* works on an empty list: the record gets id 1, the answer is 201, and the
\* file is rewritten as the array of the new record alone.
C19_CreateOnCorruptFile ==
    (Logged("Create") /\ before[req.module].state = "corrupt") =>
        \/ resp.status \in {400, 500} /\ files = before
        \/ /\ resp.status = 201
           /\ resp.item["id"] = JInt(1)
           /\ files[req.module] = ArrayFile(<<resp.item>>)

\* C19 witness: the file held a record behind unparseable text, and a Create
\* replaced it by the array of its own record, id 1.
C19_Witness ==
    /\ Logged("Create") /\ resp.status = 201
    /\ before[req.module] = CorruptFile(<<SeedRecord>>)
    /\ files[req.module] = ArrayFile(<<resp.item>>)
    /\ resp.item["id"] = JInt(1)
    /\ resp.item # SeedRecord

====
